---------------------------- MODULE Spec2Model ----------------------------
(***************************************************************************)
(* Model of video_encoder.py: the media prober (get_video_info), the       *)
(* progress tracker (the body of the read loop of encode_video), the read  *)
(* loop itself against a concurrently running encoder process, and the     *)
(* batch orchestration (encode_and_log and the main loop).                 *)
(*                                                                         *)
(* Representation.                                                         *)
(*  - An optional value (Python None or a value) is a sequence of length   *)
(*    0 or 1: None == << >>, Some(v) == <<v>>.                             *)
(*  - A float that comes from a decimal string is kept exactly as a        *)
(*    rational: a pair <<numerator, denominator>>.  Durations and speeds   *)
(*    are given in tenths.                                                 *)
(*  - A line of encoder output is a sequence of tokens <<kind, value>>:    *)
(*    whitespace, the line terminator, the literal field markers, integer  *)
(*    and decimal numerals (with their value), and other text.             *)
(*  - A rendered string is a sequence of one-character strings.            *)
(***************************************************************************)
EXTENDS Integers, Sequences, FiniteSets, TLC

(***************************************************************************)
(* Bounds of the model.                                                    *)
(***************************************************************************)
MaxFrame == 6
MaxDur == 4
MaxVideos == 2
MaxLines == 2

(* create_progress_bar's default width *)
BarWidth == 20

None == << >>
Some(v) == <<v>>
IsNone(o) == o = << >>
IsSome(o) == o # << >>
Val(o) == o[1]

(***************************************************************************)
(* Python integer helpers.  int(x) of a float truncates toward zero;       *)
(* // and % floor (TLA+ \div and % agree with them for a positive          *)
(* divisor).                                                               *)
(***************************************************************************)
TruncDiv(a, b) == IF a >= 0 THEN a \div b ELSE -((-a) \div b)

(***************************************************************************)
(* Tokens of encoder output.                                               *)
(***************************************************************************)
SP == <<"sp", 0>>
NL == <<"nl", 0>>
FRAME == <<"frame=", 0>>
SPEED == <<"speed=", 0>>
X == <<"x", 0>>
TXT == <<"txt", 0>>
NA == <<"N/A", 0>>
IntTok(n) == <<"int", n>>
DecTok(t) == <<"dec", t>>

IsSpace(tok) == tok[1] \in {"sp", "nl"}

(* str.lstrip / str.rstrip / str.strip on a token sequence *)
RECURSIVE lstrip(_)
lstrip(s) == IF s # << >> /\ IsSpace(Head(s)) THEN lstrip(Tail(s)) ELSE s

RECURSIVE rstrip(_)
rstrip(s) ==
    IF s # << >> /\ IsSpace(s[Len(s)]) THEN rstrip(SubSeq(s, 1, Len(s) - 1)) ELSE s

strip(s) == rstrip(lstrip(s))

(* line.startswith("frame=") *)
startswith_frame(s) == s # << >> /\ s[1] = FRAME

(***************************************************************************)
(* re.search over the token sequence.  SkipSpaces(s, j) is the index of    *)
(* the first token at or after j that is not whitespace.                   *)
(***************************************************************************)
RECURSIVE SkipSpaces(_, _)
SkipSpaces(s, j) ==
    IF j <= Len(s) /\ IsSpace(s[j]) THEN SkipSpaces(s, j + 1) ELSE j

(* Does the frame pattern (the marker, optional whitespace, digits) match
   with the marker at index i; the value of its group.  The digits group
   takes the leading digits of a numeral, so of a decimal numeral it takes
   the integer part. *)
FrameMatchAt(s, i) ==
    IF s[i] # FRAME THEN None
    ELSE LET j == SkipSpaces(s, i + 1) IN
         IF j > Len(s) THEN None
         ELSE IF s[j][1] = "int" THEN Some(s[j][2])
         ELSE IF s[j][1] = "dec" THEN Some(s[j][2] \div 10)
         ELSE None

(* Does the speed pattern (the marker, optional whitespace, a numeral of
   digits and dots, then "x") match with the marker at index i; the value of
   its group in tenths.  The encoder prints the speed as a decimal numeral
   (or as N/A, which the pattern does not match), so float() of the group
   is that numeral's value. *)
SpeedMatchAt(s, i) ==
    IF s[i] # SPEED THEN None
    ELSE LET j == SkipSpaces(s, i + 1) IN
         IF j + 1 > Len(s) \/ s[j + 1] # X THEN None
         ELSE IF s[j][1] = "int" THEN Some(s[j][2] * 10)
         ELSE IF s[j][1] = "dec" THEN Some(s[j][2])
         ELSE None

(* re.search: the leftmost match *)
RECURSIVE SearchFrame(_, _)
SearchFrame(s, i) ==
    IF i > Len(s) THEN None
    ELSE IF IsSome(FrameMatchAt(s, i)) THEN FrameMatchAt(s, i)
    ELSE SearchFrame(s, i + 1)

RECURSIVE SearchSpeed(_, _)
SearchSpeed(s, i) ==
    IF i > Len(s) THEN None
    ELSE IF IsSome(SpeedMatchAt(s, i)) THEN SpeedMatchAt(s, i)
    ELSE SearchSpeed(s, i + 1)

(* frame_match: the frame number, None when the pattern does not match *)
frame_match(s) == SearchFrame(s, 1)
(* speed_match: the speed in tenths, None when the pattern does not match *)
speed_match(s) == SearchSpeed(s, 1)



(***************************************************************************)
(* get_video_info.  The result of running the inspection tool is either    *)
(* an error (the tool exits non-zero or cannot be started: check_output    *)
(* raises) or its output, stripped and split at commas: a non-empty list   *)
(* of fields.  A field is <<"frac", N, D>> (the text N/D), <<"dec", t, 0>> *)
(* (a decimal numeral of value t/10) or <<"bad", 0, 0>> (any other text,   *)
(* the empty string included).                                             *)
(***************************************************************************)
AllAbsent == [frame_count |-> None, fps |-> None, duration |-> None]

(* What a parsing step does: raise, or return an optional value *)
Raise == [exc |-> TRUE, val |-> None]
Ret(o) == [exc |-> FALSE, val |-> o]

(* lines 126-131: the frame rate as a rational; int() or float() of other
   text raises ValueError, N/0 raises ZeroDivisionError *)
ParseFps(f) ==
    IF f[1] = "frac" THEN (IF f[3] = 0 THEN Raise ELSE Ret(Some(<<f[2], f[3]>>)))
    ELSE IF f[1] = "dec" THEN Ret(Some(<<f[2], 10>>))
    ELSE Raise

(* line 134: float(probe_output[1]) if len(probe_output) > 1 else None *)
ParseDuration(fields) ==
    IF Len(fields) > 1
    THEN (IF fields[2][1] = "dec" THEN Ret(Some(<<fields[2][2], 10>>)) ELSE Raise)
    ELSE Ret(None)

(* a float is truthy unless it is zero *)
Truthy(q) == q[1] # 0

(* line 137: int(duration * fps) if duration and fps else None *)
FrameCount(duration, fps) ==
    IF IsSome(duration) /\ Truthy(Val(duration)) /\ IsSome(fps) /\ Truthy(Val(fps))
    THEN Some(TruncDiv(Val(duration)[1] * Val(fps)[1], Val(duration)[2] * Val(fps)[2]))
    ELSE None

(* lines 139-143 *)
ProbeResult(fps, duration) ==
    [frame_count |-> FrameCount(duration, fps), fps |-> fps, duration |-> duration]

(* a faulty variant: an unparsable duration is treated like a missing one, so the
   frame rate stays in the result *)
get_video_info_partial(p) ==
    IF p.status # "ok" THEN AllAbsent
    ELSE IF ParseFps(p.fields[1]).exc THEN AllAbsent
    ELSE IF ParseDuration(p.fields).exc
         THEN ProbeResult(ParseFps(p.fields[1]).val, None)
    ELSE ProbeResult(ParseFps(p.fields[1]).val, ParseDuration(p.fields).val)

(* lines 105-150: every exception of the body ends in the handler, which
   returns the all-None result *)
get_video_info(p) ==
    IF p.status # "ok" THEN AllAbsent
    ELSE IF ParseFps(p.fields[1]).exc THEN AllAbsent
    ELSE IF ParseDuration(p.fields).exc THEN AllAbsent
    ELSE ProbeResult(ParseFps(p.fields[1]).val, ParseDuration(p.fields).val)

(***************************************************************************)
(* Rendering of numbers.                                                   *)
(***************************************************************************)
DigitChars == <<"0", "1", "2", "3", "4", "5", "6", "7", "8", "9">>

(* the decimal digits of n >= 0 *)
RECURSIVE Digits(_)
Digits(n) ==
    IF n < 10 THEN <<DigitChars[n + 1]>>
    ELSE Digits(n \div 10) \o <<DigitChars[(n % 10) + 1]>>

(* the format specification 02d: zero-padded to a width of at least two,
   the sign of a negative number counting toward the width *)
Format02d(n) ==
    IF n < 0 THEN <<"-">> \o Digits(-n)
    ELSE IF n < 10 THEN <<"0">> \o Digits(n)
    ELSE Digits(n)

(* s repeated n times; a repetition count below 1 gives the empty string *)
Repeat(c, n) == [k \in 1..n |-> c]

(* lines 152-156, on progress = pnum / pden percent:
   filled_width = int(width * progress / 100) *)
create_progress_bar(pnum, pden) ==
    LET filled_width == TruncDiv(BarWidth * pnum, 100 * pden) IN
    Repeat("#", filled_width) \o Repeat("-", BarWidth - filled_width)

(***************************************************************************)
(* The body of the read loop of encode_video for one line read (lines      *)
(* 222-306): what it prints.  kind is "none" (nothing printed), "println"  *)
(* (print(line): the text and a newline), "raw" (carriage return, the      *)
(* text, no newline) or "status" (carriage return, the formatted status,   *)
(* no newline).  Of the status line the model keeps the frame counter, the *)
(* progress, the progress bar and the time remaining; the instantaneous    *)
(* fps, sizes, encoded time and bitrate are shown but decide nothing.      *)
(***************************************************************************)
Printed(kind, text) ==
    [kind |-> kind, text |-> text, current_frame |-> 0, total_frames |-> 0,
     remaining_frames |-> 0, eta |-> 0,
     hours_remaining |-> 0, minutes_remaining |-> 0, seconds_remaining |-> 0,
     time_remaining |-> << >>, progress_percent |-> <<0, 1>>, progress_bar |-> << >>]

(* a faulty variant: a speed that was not extracted is taken to be 1.0 *)
encoding_speed_default(l) ==
    IF IsSome(speed_match(l)) THEN Val(speed_match(l)) ELSE 10

(* lines 240-242: encoding_speed = 0, replaced by the matched value; in
   tenths *)
encoding_speed(l) == IF IsSome(speed_match(l)) THEN Val(speed_match(l)) ELSE 0

(* line 264: frame_match and total_frames and video_fps and encoding_speed > 0 *)
can_render(l, info) ==
    /\ IsSome(frame_match(l))
    /\ IsSome(info.frame_count) /\ Val(info.frame_count) # 0
    /\ IsSome(info.fps) /\ Truthy(Val(info.fps))
    /\ encoding_speed(l) > 0

(* a faulty variant: minutes computed without reducing modulo the hour *)
minutes_of_unreduced(secs) == secs \div 60

(* line 271 *)
minutes_of(secs) == (secs % 3600) \div 60

(* lines 265-300 *)
render_status(l, info) ==
    LET current_frame == Val(frame_match(l))
        total_frames == Val(info.frame_count)
        video_fps == Val(info.fps)
        remaining_frames == total_frames - current_frame
        eta == TruncDiv(remaining_frames * video_fps[2] * 10,
                        video_fps[1] * encoding_speed(l))
        hours_remaining == eta \div 3600
        minutes_remaining == minutes_of(eta)
        seconds_remaining == eta % 60
    IN [kind |-> "status", text |-> l,
        current_frame |-> current_frame, total_frames |-> total_frames,
        remaining_frames |-> remaining_frames, eta |-> eta,
        hours_remaining |-> hours_remaining,
        minutes_remaining |-> minutes_remaining,
        seconds_remaining |-> seconds_remaining,
        time_remaining |-> Format02d(hours_remaining) \o <<":">>
                           \o Format02d(minutes_remaining) \o <<":">>
                           \o Format02d(seconds_remaining),
        progress_percent |-> <<current_frame * 100, total_frames>>,
        progress_bar |-> create_progress_bar(current_frame * 100, total_frames)]

(* a faulty variant: the prefix test is made on the line as read, before stripping *)
handle_line_unstripped(raw, info) ==
    LET l == strip(raw) IN
    IF l = << >> THEN Printed("none", << >>)
    ELSE IF startswith_frame(raw)
         THEN (IF can_render(l, info) THEN render_status(l, info) ELSE Printed("raw", l))
    ELSE Printed("println", l)

(* lines 222-306 *)
handle_line(raw, info) ==
    LET l == strip(raw) IN
    IF l = << >> THEN Printed("none", << >>)
    ELSE IF startswith_frame(l)
         THEN (IF can_render(l, info) THEN render_status(l, info) ELSE Printed("raw", l))
    ELSE Printed("println", l)

(* a faulty variant: the loop is left as soon as the process has exited *)
loop_exit_on_poll(raw, exited) == exited

(* lines 219-220: if not line and process.poll() is not None: break *)
loop_exit(raw, exited) == raw = << >> /\ exited

(***************************************************************************)
(* File names: the stem as a sequence of pieces, and the extension.        *)
(***************************************************************************)
FileName(stem, ext) == [stem |-> stem, ext |-> ext]

(* line 161: Path(video_name).stem + " encoded av1.mkv" *)
OutputFile(v) == FileName(v.stem \o <<" encoded av1">>, "mkv")
(* line 358: Path(output_file).stem + ".log" *)
LogFile(o) == FileName(o.stem, "log")
(* lines 369-374: the name in the recycle bin, suffixed when it is taken *)
Destination(v, bin) ==
    IF FileName(v.stem, v.ext) \in bin THEN FileName(v.stem \o <<"_old">>, v.ext)
    ELSE FileName(v.stem, v.ext)

(* lines 322-330: the statistics; the reduction in percent as a rational *)
calculate_size_reduction(original_size, encoded_size) ==
    [original |-> original_size, encoded |-> encoded_size,
     reduction |-> <<(original_size - encoded_size) * 100, original_size>>]

(* a function with one more (or one changed) entry, and with one less *)
Put(f, k, v) == [x \in (DOMAIN f) \cup {k} |-> IF x = k THEN v ELSE f[x]]
Drop(f, k) == [x \in (DOMAIN f) \ {k} |-> f[x]]
Range(q) == {q[n] : n \in DOMAIN q}

(***************************************************************************)
(* Inputs.                                                                 *)
(***************************************************************************)
Names == {FileName(<<"a">>, "mp4"), FileName(<<"a">>, "avi")}
Queues == UNION {[1..n -> Names] : n \in 1..MaxVideos}
InputSizes == {4}
EncodedSizes == {1}

ErrorProbe == [status |-> "error", fields |-> << >>]
OkProbe(fields) == [status |-> "ok", fields |-> fields]

FpsFields == {<<"frac", 1, 1>>, <<"frac", 2, 1>>, <<"frac", 1, 2>>,
              <<"frac", 1, 0>>, <<"frac", 0, 1>>, <<"dec", 10, 0>>,
              <<"bad", 0, 0>>}
DurTenths == {0, 5} \cup {10 * d : d \in 1..MaxDur}
             \cup {35990, 36610, 3600000}
DurFields == {<<"dec", t, 0>> : t \in DurTenths} \cup {<<"bad", 0, 0>>}
Probes == {ErrorProbe} \cup {OkProbe(<<f>>) : f \in FpsFields}
          \cup {OkProbe(<<f, d>>) : f \in FpsFields, d \in DurFields}

SpeedParts == {<< >>, <<SP, SPEED, NA>>, <<SP, SPEED, SP, DecTok(10), X>>}
              \cup {<<SP, SPEED, t, X>> :
                       t \in {DecTok(0), DecTok(5), DecTok(10), IntTok(2)}}
FrameParts == {<<TXT>>} \cup {<<IntTok(n)>> : n \in 0..MaxFrame}
ProgressBodies == {<<FRAME>> \o gap \o f \o sp :
                     gap \in {<< >>, <<SP>>}, f \in FrameParts, sp \in SpeedParts}
TextBodies == {<<TXT>>, <<TXT, SP, TXT>>,
               <<TXT, SP, FRAME, IntTok(1), SP, SPEED, DecTok(10), X>>}
PaddedBodies == {<<TXT>>, <<FRAME, IntTok(1), SP, SPEED, DecTok(10), X>>,
                 <<FRAME, IntTok(1)>>, << >>}
(* every line read is non-empty: readline returns the empty string only at
   the end of the stream *)
Lines == {b \o <<NL>> : b \in ProgressBodies \cup TextBodies}
         \cup {lead \o b \o trail : lead \in {<< >>, <<SP>>, <<SP, SP>>},
                                     b \in PaddedBodies,
                                     trail \in {<<NL>>, <<SP, NL>>, <<SP>>}}
         \cup {<<TXT>>}

BatchProbes == {ErrorProbe, OkProbe(<<<<"frac", 1, 1>>, <<"dec", 20, 0>>>>)}
BatchLines == {<<NL>>, <<TXT, NL>>, <<FRAME, IntTok(1), SP, SPEED, DecTok(10), X, NL>>}

(***************************************************************************)
(* State.                                                                  *)
(***************************************************************************)
VARIABLES
    videos,       \* the queue of input file names (line 389)
    recycle,      \* the move-to-recycle-bin option (line 449)
    i,            \* index of the file being processed (line 457)
    pc,           \* position of the program
    files,        \* the current directory: file name -> size
    logs,         \* the log files written: file name -> contents
    trash,        \* the names in the recycle-bin directory
    proc,         \* the encoder process: "none", "running", "exited"
    return_code,  \* process.poll(): None while the process has not exited
    pipe,         \* lines the encoder has written that are not yet read
    pipe_open,    \* the encoder still holds the write end of its stream
    written,      \* number of lines the encoder has written
    enc_wrote,    \* the encoder has created its output file
    probe,        \* what the inspection tool returned
    video_info,   \* get_video_info's result (line 169)
    line,         \* the line last read, as read (line 218)
    out,          \* what the loop body printed for it
    cur           \* the processing of file i: what was observed and done

vars == <<videos, recycle, i, pc, files, logs, trash, proc, return_code, pipe,
          pipe_open, written, enc_wrote, probe, video_info, line, out, cur>>

NoOut == Printed("none", << >>)
Fresh == [rc |-> None, out_present |-> FALSE, result |-> "none", log |-> None,
          logged |-> FALSE, moved |-> FALSE, msg |-> "none", err |-> "none"]

Init ==
    /\ videos \in Queues
    /\ recycle \in BOOLEAN
    /\ i = 1
    /\ pc = "main"
    /\ \E sz \in InputSizes : files = [v \in Range(videos) |-> sz]
    /\ logs = << >>
    /\ trash \in {{}, {FileName(<<"a">>, "mp4")}}
    /\ proc = "none"
    /\ return_code = None
    /\ pipe = << >>
    /\ pipe_open = FALSE
    /\ written = 0
    /\ enc_wrote = FALSE
    /\ probe = ErrorProbe
    /\ video_info = AllAbsent
    /\ line = << >>
    /\ out = NoOut
    /\ cur = Fresh



(***************************************************************************)
(* The main loop (lines 457-461) and encode_and_log / encode_video.        *)
(***************************************************************************)
input_file == videos[i]
output_file == OutputFile(videos[i])

(* what the processing of one file leaves behind it for the next one *)
ResetEncode ==
    /\ proc' = "none"
    /\ return_code' = None
    /\ pipe' = << >>
    /\ pipe_open' = FALSE
    /\ written' = 0
    /\ enc_wrote' = FALSE
    /\ probe' = ErrorProbe
    /\ video_info' = AllAbsent
    /\ line' = << >>
    /\ out' = NoOut

(* lines 457-459: the next queued file; encode_and_log is called *)
NextFile ==
    /\ pc = "main"
    /\ i <= Len(videos)
    /\ pc' = "encode"
    /\ cur' = Fresh
    /\ UNCHANGED <<videos, recycle, i, files, logs, trash, proc, return_code,
                   pipe, pipe_open, written, enc_wrote, probe, video_info,
                   line, out>>

(* line 461: the loop is over, the completion message is printed *)
AllComplete ==
    /\ pc = "main"
    /\ i > Len(videos)
    /\ pc' = "done"
    /\ UNCHANGED <<videos, recycle, i, files, logs, trash, proc, return_code,
                   pipe, pipe_open, written, enc_wrote, probe, video_info,
                   line, out, cur>>

(* lines 163-165: the input is not a file; returns (None, None) *)
InputMissing ==
    /\ pc = "encode"
    /\ input_file \notin DOMAIN files
    /\ cur' = [cur EXCEPT !.result = "fail", !.msg = "input_not_found"]
    /\ pc' = "after_encode"
    /\ UNCHANGED <<videos, recycle, i, files, logs, trash, proc, return_code,
                   pipe, pipe_open, written, enc_wrote, probe, video_info,
                   line, out>>

(* lines 167-176: the input is probed; the inspection tool returns one of
   the results in S *)
ProbeFrom(S) ==
    /\ pc = "encode"
    /\ input_file \in DOMAIN files
    /\ \E p \in S :
          /\ probe' = p
          /\ video_info' = get_video_info(p)
    /\ pc' = "spawn"
    /\ UNCHANGED <<videos, recycle, i, files, logs, trash, proc, return_code,
                   pipe, pipe_open, written, enc_wrote, line, out, cur>>

ProbeInput == ProbeFrom(BatchProbes)

(* lines 202-214: the encoder process is started *)
Launch ==
    /\ pc = "spawn"
    /\ proc' = "running"
    /\ pipe_open' = TRUE
    /\ pc' = "read_loop"
    /\ UNCHANGED <<videos, recycle, i, files, logs, trash, return_code, pipe,
                   written, enc_wrote, probe, video_info, line, out, cur>>

(* lines 208, 318-320: Popen raises; "Encoding failed", returns (None, None) *)
LaunchFails ==
    /\ pc = "spawn"
    /\ cur' = [cur EXCEPT !.result = "fail", !.msg = "encoding_failed"]
    /\ pc' = "after_encode"
    /\ UNCHANGED <<videos, recycle, i, files, logs, trash, proc, return_code,
                   pipe, pipe_open, written, enc_wrote, probe, video_info,
                   line, out>>

(* readline blocks while the stream is empty and its write end is open; it
   returns the empty string only at the end of the stream *)
CanRead == pipe # << >> \/ ~pipe_open
ReadResult == IF pipe # << >> THEN Head(pipe) ELSE << >>

(* lines 217-306: one iteration of the read loop that does not leave it *)
ReadLine ==
    /\ pc = "read_loop"
    /\ CanRead
    /\ ~loop_exit(ReadResult, proc = "exited")
    /\ line' = ReadResult
    /\ out' = handle_line(ReadResult, video_info)
    /\ pipe' = IF pipe # << >> THEN Tail(pipe) ELSE pipe
    /\ UNCHANGED <<videos, recycle, i, pc, files, logs, trash, proc,
                   return_code, pipe_open, written, enc_wrote, probe,
                   video_info, cur>>

(* lines 218-220: the iteration that leaves the loop; it prints nothing *)
LoopBreak ==
    /\ pc = "read_loop"
    /\ CanRead
    /\ loop_exit(ReadResult, proc = "exited")
    /\ line' = ReadResult
    /\ out' = NoOut
    /\ pipe' = IF pipe # << >> THEN Tail(pipe) ELSE pipe
    /\ pc' = "check_rc"
    /\ UNCHANGED <<videos, recycle, i, files, logs, trash, proc, return_code,
                   pipe_open, written, enc_wrote, probe, video_info, cur>>

(* lines 309-312: return_code != 0 (None, while the process runs, is not 0) *)
EncoderError ==
    /\ pc = "check_rc"
    /\ return_code # Some(0)
    /\ cur' = [cur EXCEPT !.rc = return_code, !.result = "fail",
                          !.msg = "error_code"]
    /\ pc' = "after_encode"
    /\ UNCHANGED <<videos, recycle, i, files, logs, trash, proc, return_code,
                   pipe, pipe_open, written, enc_wrote, probe, video_info,
                   line, out>>

(* a faulty variant: the log is produced whether or not the output file exists *)
has_output_always(fs, o) == TRUE

(* line 316: os.path.exists(output_file) *)
has_output(fs, o) == o \in DOMAIN fs

(* lines 315-316: "Encoding completed"; the output file and the statistics
   are returned if the output file exists, (None, None) otherwise *)
EncoderSuccess ==
    /\ pc = "check_rc"
    /\ return_code = Some(0)
    /\ cur' = IF has_output(files, output_file)
              THEN [cur EXCEPT !.rc = return_code,
                               !.out_present = output_file \in DOMAIN files,
                               !.result = "ok",
                               !.log = Some(calculate_size_reduction(
                                          files[input_file],
                                          IF output_file \in DOMAIN files
                                          THEN files[output_file] ELSE 0)),
                               !.msg = "completed"]
              ELSE [cur EXCEPT !.rc = return_code,
                               !.out_present = output_file \in DOMAIN files,
                               !.result = "fail", !.msg = "completed"]
    /\ pc' = "after_encode"
    /\ UNCHANGED <<videos, recycle, i, files, logs, trash, proc, return_code,
                   pipe, pipe_open, written, enc_wrote, probe, video_info,
                   line, out>>

(* line 357: if output_file and log *)
wants_log(c) == c.result = "ok" /\ IsSome(c.log)

(* line 357, encode_video returned (None, None): nothing more for this file *)
SkipFile ==
    /\ pc = "after_encode"
    /\ ~wants_log(cur)
    /\ pc' = "main"
    /\ i' = i + 1
    /\ ResetEncode
    /\ UNCHANGED <<videos, recycle, files, logs, trash, cur>>

(* a faulty variant: the original is moved whatever the option says *)
move_wanted_always(opt) == TRUE

(* line 362: if move_to_recycle_bin *)
move_wanted(opt) == opt

(* lines 358-360: the log file is written *)
WriteLog ==
    /\ pc = "after_encode"
    /\ wants_log(cur)
    /\ logs' = Put(logs, LogFile(output_file), Val(cur.log))
    /\ cur' = [cur EXCEPT !.logged = TRUE]
    /\ IF move_wanted(recycle)
       THEN /\ pc' = "move"
            /\ UNCHANGED <<i, proc, return_code, pipe, pipe_open, written,
                           enc_wrote, probe, video_info, line, out>>
       ELSE /\ pc' = "main"
            /\ i' = i + 1
            /\ ResetEncode
    /\ UNCHANGED <<videos, recycle, files, trash>>

(* lines 359-360: open or write raises; nothing catches it in encode_and_log
   or in the main loop, so the program ends with a traceback *)
WriteLogFails ==
    /\ pc = "after_encode"
    /\ wants_log(cur)
    /\ pc' = "crashed"
    /\ cur' = [cur EXCEPT !.err = "log_write"]
    /\ UNCHANGED <<videos, recycle, i, files, logs, trash, proc, return_code,
                   pipe, pipe_open, written, enc_wrote, probe, video_info,
                   line, out>>

(* lines 363-377: the original is moved to the recycle bin *)
MoveOriginal ==
    /\ pc = "move"
    /\ files' = Drop(files, input_file)
    /\ trash' = trash \cup {Destination(input_file, trash)}
    /\ cur' = [cur EXCEPT !.moved = TRUE]
    /\ pc' = "main"
    /\ i' = i + 1
    /\ ResetEncode
    /\ UNCHANGED <<videos, recycle, logs>>

(* lines 378-379: makedirs or move raises; "Move failed" *)
MoveFails ==
    /\ pc = "move"
    /\ cur' = [cur EXCEPT !.err = "move"]
    /\ pc' = "main"
    /\ i' = i + 1
    /\ ResetEncode
    /\ UNCHANGED <<videos, recycle, files, logs, trash>>

(***************************************************************************)
(* The encoder process, running beside the read loop.                      *)
(***************************************************************************)
EncWriteLine ==
    /\ proc = "running"
    /\ pipe_open
    /\ written < MaxLines
    /\ \E l \in BatchLines : pipe' = Append(pipe, l)
    /\ written' = written + 1
    /\ UNCHANGED <<videos, recycle, i, pc, files, logs, trash, proc,
                   return_code, pipe_open, enc_wrote, probe, video_info,
                   line, out, cur>>

(* the encoder creates its output file, overwriting an existing one (-y) *)
EncWriteOutput ==
    /\ proc = "running"
    /\ ~enc_wrote
    /\ \E sz \in EncodedSizes : files' = Put(files, output_file, sz)
    /\ enc_wrote' = TRUE
    /\ UNCHANGED <<videos, recycle, i, pc, logs, trash, proc, return_code,
                   pipe, pipe_open, written, probe, video_info, line, out, cur>>

(* the encoder closes its output stream while it goes on running *)
EncCloseStream ==
    /\ proc = "running"
    /\ pipe_open
    /\ pipe_open' = FALSE
    /\ UNCHANGED <<videos, recycle, i, pc, files, logs, trash, proc,
                   return_code, pipe, written, enc_wrote, probe, video_info,
                   line, out, cur>>

(* the encoder exits; its end of the stream is closed with it, and what the
   model remembers of the process's own progress ends with it *)
EncExit ==
    /\ proc = "running"
    /\ \E code \in {0, 1} : return_code' = Some(code)
    /\ proc' = "exited"
    /\ pipe_open' = FALSE
    /\ written' = 0
    /\ enc_wrote' = FALSE
    /\ UNCHANGED <<videos, recycle, i, pc, files, logs, trash, pipe, probe,
                   video_info, line, out, cur>>

Next ==
    \/ NextFile \/ AllComplete \/ InputMissing \/ ProbeInput
    \/ Launch \/ LaunchFails \/ ReadLine \/ LoopBreak
    \/ EncoderError \/ EncoderSuccess \/ SkipFile
    \/ WriteLog \/ WriteLogFails \/ MoveOriginal \/ MoveFails
    \/ EncWriteLine \/ EncWriteOutput \/ EncCloseStream \/ EncExit

Spec == Init /\ [][Next]_vars

(***************************************************************************)
(* One call of encode_video, from the main loop's call to its return, with *)
(* the scheduling the read loop has: it is the only thing the program does *)
(* while the encoder runs, so an iteration that can be taken is taken.     *)
(***************************************************************************)
InitEncode ==
    /\ Init
    /\ videos = <<FileName(<<"a">>, "mp4")>>
    /\ ~recycle
    /\ trash = {}

NextEncode ==
    \/ NextFile \/ ProbeInput \/ Launch \/ LaunchFails
    \/ ReadLine \/ LoopBreak \/ EncoderError \/ EncoderSuccess
    \/ EncWriteLine \/ EncWriteOutput \/ EncCloseStream \/ EncExit

FairEncode ==
    InitEncode /\ [][NextEncode]_vars /\ WF_vars(ReadLine) /\ WF_vars(LoopBreak)

(***************************************************************************)
(* The prober and the loop body over all their inputs: in one encode the   *)
(* inspection tool returns any result, the encoder is started and writes   *)
(* any line, which the loop then reads.                                    *)
(***************************************************************************)
InitTracker ==
    /\ videos = <<FileName(<<"a">>, "mp4")>>
    /\ recycle = FALSE
    /\ i = 1
    /\ pc = "encode"
    /\ \E sz \in InputSizes : files = [v \in Range(videos) |-> sz]
    /\ logs = << >>
    /\ trash = {}
    /\ proc = "none"
    /\ return_code = None
    /\ pipe = << >>
    /\ pipe_open = FALSE
    /\ written = 0
    /\ enc_wrote = FALSE
    /\ probe = ErrorProbe
    /\ video_info = AllAbsent
    /\ line = << >>
    /\ out = NoOut
    /\ cur = Fresh

ProbeAny == ProbeFrom(Probes)

(* the encoder writes a first line, any line; one line is enough, the loop
   body keeps nothing from one line to the next *)
EncWriteAny ==
    /\ proc = "running"
    /\ pipe_open
    /\ written = 0
    /\ \E raw \in Lines : pipe' = Append(pipe, raw)
    /\ written' = written + 1
    /\ UNCHANGED <<videos, recycle, i, pc, files, logs, trash, proc,
                   return_code, pipe_open, enc_wrote, probe, video_info,
                   line, out, cur>>

NextTracker == ProbeAny \/ Launch \/ EncWriteAny \/ ReadLine

SpecTracker == InitTracker /\ [][NextTracker]_vars

(***************************************************************************)
(* Properties.                                                             *)
(***************************************************************************)
(* the line without its leading and trailing whitespace, by positions *)
NonSpaceAt(raw) == {k \in 1..Len(raw) : ~IsSpace(raw[k])}
Least(S) == CHOOSE k \in S : \A m \in S : k <= m
Greatest(S) == CHOOSE k \in S : \A m \in S : m <= k
Trimmed(raw) ==
    IF NonSpaceAt(raw) = {} THEN << >>
    ELSE SubSeq(raw, Least(NonSpaceAt(raw)), Greatest(NonSpaceAt(raw)))

HasRead == line # << >>
IsProgressLine == HasRead /\ Trimmed(line) # << >> /\ Trimmed(line)[1] = FRAME

(* C1: what is printed for a line read is decided by the trimmed line alone:
   nothing for a line that is empty once trimmed; the trimmed text and a
   newline, with no field extraction, for a non-empty line that does not
   start with the frame marker; a carriage return and no newline (the raw
   trimmed line or the status line) only for a line that starts with it. *)
C1_LineDispatch ==
    HasRead =>
        /\ Trimmed(line) = << >> => out = NoOut
        /\ (Trimmed(line) # << >> /\ Trimmed(line)[1] # FRAME)
              => out = Printed("println", Trimmed(line))
        /\ IsProgressLine => out.kind \in {"raw", "status"}
        /\ out.kind \in {"raw", "status"} => IsProgressLine
        /\ out.kind = "raw" => out = Printed("raw", Trimmed(line))

(* a line with whitespace before the frame marker is a progress line *)
C1_Witness ==
    /\ line = <<SP, FRAME, IntTok(1), SP, NL>>
    /\ out = Printed("raw", <<FRAME, IntTok(1)>>)

FrameExtracted == IsSome(frame_match(Trimmed(line)))
SpeedPositive ==
    IsSome(speed_match(Trimmed(line))) /\ Val(speed_match(Trimmed(line))) > 0
ProbeSupplied == IsSome(video_info.frame_count) /\ IsSome(video_info.fps)

(* the raw line is passed through in place and nothing is computed *)
PassedThrough == out = Printed("raw", Trimmed(line))

(* C2, as stated: for a progress line the status line is rendered if and
   only if the frame number was extracted, the probe supplied total_frames
   and frame_rate and a speed greater than 0 was extracted; otherwise the
   raw line is passed through. *)
C2_Original ==
    IsProgressLine =>
        /\ out.kind = "status" <=> (FrameExtracted /\ ProbeSupplied /\ SpeedPositive)
        /\ ~(FrameExtracted /\ ProbeSupplied /\ SpeedPositive) => PassedThrough

(* C2, amended: the same, with a total_frames that is not 0 (a probed
   total_frames of 0 is treated as absent). *)
C2_RenderIff ==
    IsProgressLine =>
        LET ok == /\ FrameExtracted /\ ProbeSupplied /\ SpeedPositive
                  /\ Val(video_info.frame_count) # 0
        IN /\ out.kind = "status" <=> ok
           /\ ~ok => PassedThrough

(* a progress line with a frame number and no speed field, probe complete *)
C2_Witness ==
    /\ IsProgressLine /\ FrameExtracted /\ ProbeSupplied
    /\ Val(video_info.frame_count) # 0
    /\ IsNone(speed_match(Trimmed(line)))
    /\ PassedThrough

(* C3: in every rendered status line the remaining frames are clamped at 0,
   the seconds remaining are not negative and no component of the displayed
   time is negative. *)
C3_EtaNotNegative ==
    out.kind = "status" =>
        /\ out.remaining_frames >= 0
        /\ out.eta >= 0
        /\ out.hours_remaining >= 0
        /\ out.minutes_remaining >= 0
        /\ out.seconds_remaining >= 0
        /\ \A k \in 1..Len(out.time_remaining) : out.time_remaining[k] # "-"

(* C4: in every rendered status line the progress is between 0 and 100
   percent. *)
C4_PercentInRange ==
    out.kind = "status" =>
        /\ 0 <= out.progress_percent[1]
        /\ out.progress_percent[1] <= 100 * out.progress_percent[2]

(* reading a rendered time back *)
ColonsAt(str) == {k \in 1..Len(str) : str[k] = ":"}
IsDigit(c) == \E d \in 1..10 : DigitChars[d] = c
DigitValue(c) == (CHOOSE d \in 1..10 : DigitChars[d] = c) - 1
RECURSIVE NumberOf(_)
NumberOf(str) ==
    IF str = << >> THEN 0
    ELSE 10 * NumberOf(SubSeq(str, 1, Len(str) - 1)) + DigitValue(str[Len(str)])
HoursText(str) == SubSeq(str, 1, Least(ColonsAt(str)) - 1)
MinutesText(str) == SubSeq(str, Least(ColonsAt(str)) + 1, Greatest(ColonsAt(str)) - 1)
SecondsText(str) == SubSeq(str, Greatest(ColonsAt(str)) + 1, Len(str))
AllDigits(str) == \A k \in 1..Len(str) : IsDigit(str[k])

(* C5: for seconds remaining that are not negative, the rendered time is
   HH:MM:SS: three fields of digits, minutes and seconds of exactly two
   digits and at most 59, hours of two digits or as many as the number has,
   and 3600 * hours + 60 * minutes + seconds is the number of seconds. *)
C5_TimeFormat ==
    (out.kind = "status" /\ out.eta >= 0) =>
        LET str == out.time_remaining IN
        /\ Cardinality(ColonsAt(str)) = 2
        /\ AllDigits(HoursText(str)) /\ AllDigits(MinutesText(str))
        /\ AllDigits(SecondsText(str))
        /\ Len(MinutesText(str)) = 2 /\ Len(SecondsText(str)) = 2
        /\ Len(HoursText(str)) >= 2
        /\ (Len(HoursText(str)) > 2 => HoursText(str)[1] # "0")
        /\ NumberOf(MinutesText(str)) <= 59
        /\ NumberOf(SecondsText(str)) <= 59
        /\ NumberOf(HoursText(str)) = out.eta \div 3600
        /\ NumberOf(MinutesText(str)) = (out.eta % 3600) \div 60
        /\ NumberOf(SecondsText(str)) = out.eta % 60
        /\ 3600 * NumberOf(HoursText(str)) + 60 * NumberOf(MinutesText(str))
              + NumberOf(SecondsText(str)) = out.eta
        /\ (out.eta = 0 => str = <<"0", "0", ":", "0", "0", ":", "0", "0">>)
        /\ (out.eta = 360000
              => str = <<"1", "0", "0", ":", "0", "0", ":", "0", "0">>)

(* 3661 seconds are rendered 01:01:01 *)
C5_Witness ==
    /\ out.kind = "status"
    /\ out.eta = 3661
    /\ out.time_remaining = <<"0", "1", ":", "0", "1", ":", "0", "1">>

(* the ways of failing that the claim lists, but for a missing duration *)
Probed == pc \notin {"main", "encode"}
ToolFailed == Probed /\ probe.status # "ok"
FpsUnusable ==
    /\ Probed /\ probe.status = "ok"
    /\ \/ probe.fields[1][1] = "bad"
       \/ probe.fields[1][1] = "frac" /\ probe.fields[1][3] = 0
DurationUnparsable ==
    /\ Probed /\ probe.status = "ok"
    /\ Len(probe.fields) > 1 /\ probe.fields[2][1] # "dec"
DurationMissing == Probed /\ probe.status = "ok" /\ Len(probe.fields) = 1

(* C6, as stated: whenever probing fails (the tool fails, the frame rate is
   unparsable or has a zero denominator, the duration is unparsable or is
   missing) all three fields of the result are None. *)
C6_Original ==
    (ToolFailed \/ FpsUnusable \/ DurationUnparsable \/ DurationMissing)
        => video_info = AllAbsent

(* C6, amended: whenever the tool fails, the frame rate is unparsable or has
   a zero denominator, or the duration is unparsable, all three fields are
   None; when only the duration is missing, frame_count and duration are
   None and fps is the parsed frame rate. *)
C6_ProbeFailure ==
    /\ (ToolFailed \/ FpsUnusable \/ DurationUnparsable) => video_info = AllAbsent
    /\ (DurationMissing /\ ~FpsUnusable)
          => /\ IsNone(video_info.frame_count)
             /\ IsNone(video_info.duration)
             /\ IsSome(video_info.fps)

(* a frame rate of 1/0 with a good duration gives the all-None result *)
C6_Witness ==
    /\ Probed
    /\ probe = OkProbe(<<<<"frac", 1, 0>>, <<"dec", 20, 0>>>>)
    /\ video_info = AllAbsent

(* encode_and_log has returned for the file cur describes, or an exception
   has ended it *)
Returned == pc \in {"main", "done"} /\ cur.msg # "none"
Ended == Returned \/ pc = "crashed"
ExitedZero == cur.rc = Some(0)
ExitedNonZero == IsSome(cur.rc) /\ cur.rc # Some(0)

(* C7, as stated: when a file's processing has ended, a non-zero exit gave
   a failure and no log, a zero exit without output file gave a failure and
   no log, a zero exit with the output file gave success and the log; a log
   is written if and only if the exit code was 0 and the output exists. *)
C7_Original ==
    Ended =>
        /\ ExitedNonZero => (cur.result = "fail" /\ ~cur.logged)
        /\ (ExitedZero /\ ~cur.out_present) => (cur.result = "fail" /\ ~cur.logged)
        /\ (ExitedZero /\ cur.out_present) => (cur.result = "ok" /\ cur.logged)
        /\ cur.logged <=> (ExitedZero /\ cur.out_present)

(* C7, amended: the same, except that with a zero exit and the output file
   present the log is written only if writing it does not raise; if it
   raises, no log is written and the exception ends the program. *)
C7_Outcome ==
    /\ Ended =>
        /\ ExitedNonZero
              => (cur.result = "fail" /\ cur.msg = "error_code" /\ ~cur.logged)
        /\ (ExitedZero /\ ~cur.out_present) => (cur.result = "fail" /\ ~cur.logged)
        /\ (ExitedZero /\ cur.out_present) => cur.result = "ok"
        /\ cur.logged => (ExitedZero /\ cur.out_present)
    /\ Returned =>
        /\ cur.logged <=> (ExitedZero /\ cur.out_present)
        /\ cur.logged
              => /\ LogFile(OutputFile(videos[i - 1])) \in DOMAIN logs
                 /\ logs[LogFile(OutputFile(videos[i - 1]))] = Val(cur.log)
    /\ pc = "crashed" => (ExitedZero /\ cur.out_present /\ ~cur.logged)

(* a file whose encoder exited 0 with the output present, and its log *)
C7_Witness ==
    /\ Returned /\ ExitedZero /\ cur.out_present /\ cur.logged
    /\ LogFile(OutputFile(videos[i - 1])) \in DOMAIN logs

(* C8: the run ends only with the completion message, every queued file
   processed: no failure of one file ends it before. *)
C8_BatchCompletes ==
    pc \in {"done", "crashed"} => (pc = "done" /\ i = Len(videos) + 1)

(* C9: the exit status is checked only when the process has exited and
   every line it wrote has been read (the stream is at its end and empty),
   and once the process has exited and the stream is drained the read loop
   ends. *)
C9_ReadLoop ==
    /\ [](pc = "check_rc"
            => /\ proc = "exited"
               /\ IsSome(return_code)
               /\ ~pipe_open
               /\ pipe = << >>)
    /\ ((pc = "read_loop" /\ proc = "exited" /\ pipe = << >>)
           ~> (pc # "read_loop"))

(* the loop has been left: the process has exited with 0, nothing is unread *)
C9_Witness ==
    /\ pc = "check_rc"
    /\ proc = "exited"
    /\ pipe = << >>
    /\ return_code = Some(0)

(* C10: a file leaves the current directory only as the original of the
   file being processed, moved to the recycle bin with the option chosen,
   after its encoder exited 0 with the output file present and its log was
   written; no other step removes or replaces an original. *)
C10_MoveOnlyAfterSuccess ==
    [][\A v \in DOMAIN files :
          (v \notin DOMAIN files' \/ (v \in Range(videos) /\ files'[v] # files[v]))
            => /\ v = videos[i]
               /\ v \notin DOMAIN files'
               /\ recycle
               /\ ExitedZero /\ cur.out_present /\ cur.result = "ok"
               /\ cur.logged
               /\ LogFile(OutputFile(v)) \in DOMAIN logs
               /\ cur'.moved
               /\ \E d \in trash' : d \notin trash]_vars

(* an original has been moved *)
C10_Witness ==
    /\ cur.moved
    /\ recycle
    /\ videos[i - 1] \notin DOMAIN files
    /\ trash # {}

(***************************************************************************)
(* C11: within one batch, an output file that was encoded successfully,    *)
(* and its log file, is never overwritten by the processing of a later     *)
(* queued file: two distinct queued input files have distinct output       *)
(* paths, also when they share a stem and differ in extension.  A file     *)
(* queued earlier was encoded successfully when its log file exists; the   *)
(* encoder of file i writes its output in the step that sets enc_wrote,    *)
(* and the log of file i is written in the step that sets cur.logged.      *)
(***************************************************************************)
EarlierSuccess(k) ==
    /\ k < i
    /\ videos[k] # videos[i]
    /\ OutputFile(videos[k]) \in DOMAIN files
    /\ LogFile(OutputFile(videos[k])) \in DOMAIN logs

C11_NoOverwrite ==
    [][/\ (~enc_wrote /\ enc_wrote')
          => \A k \in DOMAIN videos :
                EarlierSuccess(k) => OutputFile(videos[k]) # output_file
       /\ (~cur.logged /\ cur'.logged)
          => \A k \in DOMAIN videos :
                EarlierSuccess(k)
                => LogFile(OutputFile(videos[k])) # LogFile(output_file)]_vars

=============================================================================
